---- MODULE Spec2Model ----
(***************************************************************************)
(* Model of the extractive sentence checker (src/app.py).                  *)
(*                                                                         *)
(* A Python str is a sequence of one-character strings, so that strip,     *)
(* split, the regular expressions, int() and the f-string key format are   *)
(* modelled by what they do to the characters.                             *)
(***************************************************************************)
EXTENDS Integers, Sequences, FiniteSets, TLC

VARIABLES pc, paragraphs, doc_data, line_to_key_map, df, index, results,
          location_str, keys, text1, text2, highlighted

vars == <<pc, paragraphs, doc_data, line_to_key_map, df, index, results,
          location_str, keys, text1, text2, highlighted>>

(***************************************************************************)
(* Bounds of the explored inputs.                                          *)
(***************************************************************************)
MaxParas == 2
MaxRows == 2
MaxWideParas == 7
MaxLocParas == 3
MaxDiffLen == 3

(***************************************************************************)
(* Python str primitives.                                                  *)
(***************************************************************************)
TAB == "\t"
Whitespace == {" ", TAB}
Digits == {"0", "1", "2", "3", "4", "5", "6", "7", "8", "9"}

StringsUpTo(alphabet, n) == UNION {[1..k -> alphabet] : k \in 0..n}

\* s[i:j] for 0 <= i, j (Python slice, clipped to the string)
Slice(s, i, j) == SubSeq(s, i + 1, IF j > Len(s) THEN Len(s) ELSE j)

\* str.strip(): drop leading and trailing whitespace
Strip(s) ==
    LET inner == {i \in 1..Len(s) : s[i] \notin Whitespace}
    IN  IF inner = {} THEN <<>>
        ELSE LET lo == CHOOSE i \in inner : \A j \in inner : i <= j
                 hi == CHOOSE i \in inner : \A j \in inner : j <= i
             IN  SubSeq(s, lo, hi)

\* str.count(c) for a single character c
Count(s, c) == Cardinality({i \in 1..Len(s) : s[i] = c})

\* sub occurs in s at 0-based offset i
OccursAt(sub, s, i) ==
    /\ i + Len(sub) <= Len(s)
    /\ \A k \in 1..Len(sub) : s[i + k] = sub[k]

\* the Python operator `sub in s`
Contains(s, sub) == \E i \in 0..Len(s) : OccursAt(sub, s, i)

\* str.lower() on the letters the inputs use
LowerChar(c) ==
    CASE c = "N" -> "n"
      [] c = "A" -> "a"
      [] c = "B" -> "b"
      [] OTHER -> c

Lower(s) == [i \in 1..Len(s) |-> LowerChar(s[i])]

\* str.split(sep) for a non-empty separator: non-overlapping, left to right
RECURSIVE Split(_, _)
Split(s, sep) ==
    LET hits == {i \in 0..Len(s) : OccursAt(sep, s, i)}
    IN  IF hits = {} THEN <<s>>
        ELSE LET i == CHOOSE h \in hits : \A g \in hits : h <= g
             IN  <<Slice(s, 0, i)>> \o Split(Slice(s, i + Len(sep), Len(s)), sep)

\* " ".join(parts)
RECURSIVE Join(_)
Join(parts) ==
    IF parts = <<>> THEN <<>>
    ELSE IF Len(parts) = 1 THEN parts[1]
    ELSE parts[1] \o <<" ">> \o Join(Tail(parts))

DigitVal(c) ==
    CASE c = "0" -> 0 [] c = "1" -> 1 [] c = "2" -> 2 [] c = "3" -> 3
      [] c = "4" -> 4 [] c = "5" -> 5 [] c = "6" -> 6 [] c = "7" -> 7
      [] c = "8" -> 8 [] c = "9" -> 9

DigitChar(d) ==
    CASE d = 0 -> "0" [] d = 1 -> "1" [] d = 2 -> "2" [] d = 3 -> "3"
      [] d = 4 -> "4" [] d = 5 -> "5" [] d = 6 -> "6" [] d = 7 -> "7"
      [] d = 8 -> "8" [] d = 9 -> "9"

\* int(s) for a non-empty string of digits (leading zeros allowed)
RECURSIVE ParseInt(_)
ParseInt(s) ==
    IF Len(s) = 0 THEN 0
    ELSE 10 * ParseInt(SubSeq(s, 1, Len(s) - 1)) + DigitVal(s[Len(s)])

\* str(n) for n >= 0
RECURSIVE IntToStr(_)
IntToStr(n) ==
    IF n < 10 THEN <<DigitChar(n)>>
    ELSE IntToStr(n \div 10) \o <<DigitChar(n % 10)>>

\* length of the longest run of digits starting at 1-based position p
RECURSIVE DigitRun(_, _)
DigitRun(s, p) ==
    IF p <= Len(s) /\ s[p] \in Digits THEN 1 + DigitRun(s, p + 1) ELSE 0

(***************************************************************************)
(* difflib.SequenceMatcher(None, a, b, autojunk=False): no junk, no        *)
(* popular elements. Indices are 0-based as in Python.                     *)
(***************************************************************************)
NoMatch == <<"None">>

\* a matcher that takes the block starting earliest in a instead of the
\* longest one
find_earliest_match(a, b, alo, ahi, blo, bhi) ==
    LET blocks == {m \in (alo..ahi) \X (blo..bhi) \X (1..(ahi - alo)) :
                      /\ m[1] + m[3] <= ahi
                      /\ m[2] + m[3] <= bhi
                      /\ \A d \in 1..m[3] : a[m[1] + d] = b[m[2] + d]}
    IN  IF blocks = {} THEN <<alo, blo, 0>>
        ELSE CHOOSE m \in blocks : \A o \in blocks :
                 \/ m[1] < o[1]
                 \/ m[1] = o[1] /\ m[3] > o[3]
                 \/ m[1] = o[1] /\ m[3] = o[3] /\ m[2] <= o[2]

\* find_longest_match(alo, ahi, blo, bhi): the longest block a[i:i+k] =
\* b[j:j+k] inside the two windows; of the longest, the one starting
\* earliest in a, and of those the one starting earliest in b; (alo, blo, 0)
\* when the windows share no element.
find_longest_match(a, b, alo, ahi, blo, bhi) ==
    LET blocks == {m \in (alo..ahi) \X (blo..bhi) \X (1..(ahi - alo)) :
                      /\ m[1] + m[3] <= ahi
                      /\ m[2] + m[3] <= bhi
                      /\ \A d \in 1..m[3] : a[m[1] + d] = b[m[2] + d]}
    IN  IF blocks = {} THEN <<alo, blo, 0>>
        ELSE CHOOSE m \in blocks : \A o \in blocks :
                 \/ m[3] > o[3]
                 \/ m[3] = o[3] /\ m[1] < o[1]
                 \/ m[3] = o[3] /\ m[1] = o[1] /\ m[2] <= o[2]

\* the queue loop of get_matching_blocks followed by its sort: the blocks
\* left of the longest match, the match, the blocks right of it
RECURSIVE matching_blocks_in(_, _, _, _, _, _)
matching_blocks_in(a, b, alo, ahi, blo, bhi) ==
    LET x == find_longest_match(a, b, alo, ahi, blo, bhi)
        i == x[1]
        j == x[2]
        k == x[3]
    IN  IF k = 0 THEN <<>>
        ELSE (IF alo < i /\ blo < j
                 THEN matching_blocks_in(a, b, alo, i, blo, j) ELSE <<>>)
             \o <<x>>
             \o (IF i + k < ahi /\ j + k < bhi
                    THEN matching_blocks_in(a, b, i + k, ahi, j + k, bhi) ELSE <<>>)

\* the second loop of get_matching_blocks: adjacent blocks are merged
RECURSIVE collapse_adjacent(_, _)
collapse_adjacent(blocks, cur) ==
    IF blocks = <<>> THEN (IF cur[3] > 0 THEN <<cur>> ELSE <<>>)
    ELSE LET n == Head(blocks)
         IN  IF cur[1] + cur[3] = n[1] /\ cur[2] + cur[3] = n[2]
             THEN collapse_adjacent(Tail(blocks), <<cur[1], cur[2], cur[3] + n[3]>>)
             ELSE (IF cur[3] > 0 THEN <<cur>> ELSE <<>>)
                  \o collapse_adjacent(Tail(blocks), n)

get_matching_blocks(a, b) ==
    collapse_adjacent(matching_blocks_in(a, b, 0, Len(a), 0, Len(b)), <<0, 0, 0>>)
        \o <<<<Len(a), Len(b), 0>>>>

\* get_opcodes: the gaps between matching blocks become replace / delete /
\* insert, the blocks themselves equal
RECURSIVE opcodes_from(_, _, _)
opcodes_from(blocks, i, j) ==
    IF blocks = <<>> THEN <<>>
    ELSE LET ai == Head(blocks)[1]
             bj == Head(blocks)[2]
             size == Head(blocks)[3]
             tag == IF i < ai /\ j < bj THEN "replace"
                    ELSE IF i < ai THEN "delete"
                    ELSE IF j < bj THEN "insert"
                    ELSE ""
         IN  (IF tag # "" THEN <<<<tag, i, ai, j, bj>>>> ELSE <<>>)
             \o (IF size > 0 THEN <<<<"equal", ai, ai + size, bj, bj + size>>>> ELSE <<>>)
             \o opcodes_from(Tail(blocks), ai + size, bj + size)

get_opcodes(a, b) == opcodes_from(get_matching_blocks(a, b), 0, 0)

(***************************************************************************)
(* get_highlighted_diff                                                    *)
(***************************************************************************)
SpanOpen == "<span style=\"background-color: #fdd835;\">"
SpanClose == "</span>"

RECURSIVE render_opcodes(_, _)
render_opcodes(opcodes, t1) ==
    IF opcodes = <<>> THEN <<>>
    ELSE LET op == Head(opcodes)
             piece == Slice(t1, op[4], op[5])
         IN  (IF op[1] = "equal" THEN piece
              ELSE IF op[1] \in {"insert", "replace"}
                   THEN <<SpanOpen>> \o piece \o <<SpanClose>>
              ELSE <<>>)
             \o render_opcodes(Tail(opcodes), t1)

get_highlighted_diff(t1, t2) == render_opcodes(get_opcodes(t2, t1), t1)

(***************************************************************************)
(* parse_docx                                                              *)
(***************************************************************************)
\* f"L{line}:T{tab}"
format_key(line, tab) == <<"L">> \o IntToStr(line) \o <<":", "T">> \o IntToStr(tab)

\* clean_text = para.text.strip()
clean_text(para) == Strip(para)

\* d[k] = v on a dict modelled as a function
DictSet(d, k, v) == [x \in DOMAIN d \cup {k} |-> IF x = k THEN v ELSE d[x]]

EmptyDict == [x \in {} |-> <<>>]

\* the loop over doc.paragraphs, from paragraph number n + 1 on
RECURSIVE parse_docx_loop(_, _, _, _)
parse_docx_loop(paras, n, dd, lkm) ==
    IF n = Len(paras) THEN <<dd, lkm>>
    ELSE LET true_line_number_counter == n + 1
             para == paras[true_line_number_counter]
             tab_count == Count(para, TAB)
             key == format_key(true_line_number_counter, tab_count)
         IN  parse_docx_loop(paras, true_line_number_counter,
                             DictSet(dd, key, clean_text(para)),
                             DictSet(lkm, true_line_number_counter, key))

\* an indexer that stores text for non-empty paragraphs only
parse_docx_nonempty_only(paras) ==
    LET p == parse_docx_loop(paras, 0, EmptyDict, EmptyDict)
    IN  <<[k \in {x \in DOMAIN p[1] : p[1][x] # <<>>} |-> p[1][k]], p[2]>>

\* returns <<doc_data, line_to_key_map>>
parse_docx(paras) == parse_docx_loop(paras, 0, EmptyDict, EmptyDict)

(***************************************************************************)
(* parse_location_string                                                   *)
(***************************************************************************)
\* re.match(r"L(\d+):[TC]\d*", s): group(1), or NoMatch. The match is
\* anchored at the start only, and the trailing \d* accepts anything.
match_range_regex(s) ==
    LET r == DigitRun(s, 2)
    IN  IF /\ Len(s) >= 1
           /\ s[1] = "L"
           /\ r >= 1
           /\ Len(s) >= r + 3
           /\ s[r + 2] = ":"
           /\ s[r + 3] \in {"T", "C"}
        THEN SubSeq(s, 2, r + 1)
        ELSE NoMatch

\* [line_to_key_map.get(n) for n in range(lo, hi + 1) if it is truthy]
RECURSIVE keys_in_lines(_, _, _)
keys_in_lines(lkm, lo, hi) ==
    IF lo > hi THEN <<>>
    ELSE (IF lo \in DOMAIN lkm /\ lkm[lo] # <<>> THEN <<lkm[lo]>> ELSE <<>>)
         \o keys_in_lines(lkm, lo + 1, hi)

\* a range loop that stops one line short: range(start_l, end_l)
range_keys_exclusive_end(s, lkm) ==
    LET parts == Split(s, <<" ", "-", " ">>)
    IN  IF Len(parts) # 2 THEN <<>>
        ELSE LET start_match == match_range_regex(Strip(parts[1]))
                 end_match == match_range_regex(Strip(parts[2]))
             IN  IF start_match = NoMatch \/ end_match = NoMatch THEN <<>>
                 ELSE keys_in_lines(lkm, ParseInt(start_match), ParseInt(end_match) - 1)

range_keys(s, lkm) ==
    LET parts == Split(s, <<" ", "-", " ">>)
    IN  IF Len(parts) # 2 THEN <<>>     \* unpacking raises ValueError: except -> []
        ELSE LET start_match == match_range_regex(Strip(parts[1]))
                 end_match == match_range_regex(Strip(parts[2]))
             IN  IF start_match = NoMatch \/ end_match = NoMatch THEN <<>>
                 ELSE keys_in_lines(lkm, ParseInt(start_match), ParseInt(end_match))

single_keys(s, lkm) ==
    LET match == match_range_regex(s)
        line_num == ParseInt(match)
    IN  IF match = NoMatch THEN <<>>
        ELSE IF line_num \in DOMAIN lkm /\ lkm[line_num] # <<>> THEN <<lkm[line_num]>>
        ELSE <<>>

parse_location_string(loc, lkm) ==
    LET s == Strip(loc)
    IN  IF Contains(s, <<" ", "-", " ">>) THEN range_keys(s, lkm)
        ELSE single_keys(s, lkm)

(***************************************************************************)
(* run_checker: one iteration of the loop over df.iterrows()               *)
(***************************************************************************)
NaN == <<"float('nan')">>
NanText == <<"n", "a", "n">>

\* str(cell)
Str(cell) == IF cell = NaN THEN NanText ELSE cell

HeaderOffset == 2
ExpandLines == 5

\* re.match(r"L(\d+):", key): group(1), or NoMatch
match_key_line(key) ==
    LET r == DigitRun(key, 2)
    IN  IF Len(key) >= 1 /\ key[1] = "L" /\ r >= 1 /\ Len(key) >= r + 2 /\ key[r + 2] = ":"
        THEN SubSeq(key, 2, r + 1)
        ELSE NoMatch

\* int(key.split(':')[0][1:])
key_line_number(key) == ParseInt(Slice(Split(key, <<":">>)[1], 1, Len(key)))

search_start_line(original_line_num) ==
    IF original_line_num - ExpandLines > 1 THEN original_line_num - ExpandLines ELSE 1

\* an expansion that stops one line short
search_end_line_short(original_line_num) == original_line_num + ExpandLines - 1

search_end_line(original_line_num) == original_line_num + ExpandLines

expand_location_keys(initial_location_keys, lkm) ==
    IF initial_location_keys = <<>> THEN <<>>
    ELSE IF Len(initial_location_keys) = 1
    THEN LET match == match_key_line(initial_location_keys[1])
         IN  IF match # NoMatch
             THEN keys_in_lines(lkm, search_start_line(ParseInt(match)),
                                search_end_line(ParseInt(match)))
             ELSE initial_location_keys
    ELSE initial_location_keys

\* [doc_data.get(key) for key in keys if doc_data.get(key) is not None]
RECURSIVE texts_of(_, _)
texts_of(ks, dd) ==
    IF ks = <<>> THEN <<>>
    ELSE (IF Head(ks) \in DOMAIN dd THEN <<dd[Head(ks)]>> ELSE <<>>)
         \o texts_of(Tail(ks), dd)

\* a match test on the joined text instead of each text
is_found_in_joined(doc_texts, sentence) == Contains(Join(doc_texts), sentence)

is_found_in(doc_texts, sentence) ==
    \E t \in 1..Len(doc_texts) : Contains(doc_texts[t], sentence)

actual_checked_range(expanded) ==
    IF Len(expanded) > 1
    THEN <<"Checked range", key_line_number(expanded[1]),
           key_line_number(expanded[Len(expanded)])>>
    ELSE <<"Checked line", Split(expanded[1], <<":">>)[1]>>

sentence_of(row) == Strip(Str(row.sentence))
location_of(row) == Strip(Str(row.location))

\* a skip test that looks at the sentence only
is_skipped_sentence_only(row) ==
    \/ sentence_of(row) = <<>>
    \/ Lower(sentence_of(row)) = NanText

\* the `continue` test
is_skipped(row) ==
    \/ sentence_of(row) = <<>>
    \/ location_of(row) = <<>>
    \/ Lower(sentence_of(row)) = NanText
    \/ Lower(location_of(row)) = NanText

\* result_item for the row at 0-based position idx
check_row(row, idx, dd, lkm) ==
    LET sentence_to_check == sentence_of(row)
        loc == location_of(row)
        base == [excel_row |-> idx + HeaderOffset,
                 location  |-> loc,
                 sentence  |-> sentence_to_check]
        initial_location_keys == parse_location_string(loc, lkm)
        expanded_location_keys == expand_location_keys(initial_location_keys, lkm)
        doc_texts == texts_of(expanded_location_keys, dd)
        full_doc_text == Join(doc_texts)
    IN  IF expanded_location_keys = <<>>
        THEN base @@ [status |-> "Error", details |-> <<"invalid location", loc>>]
        ELSE IF is_found_in(doc_texts, sentence_to_check)
        THEN base @@ [status |-> "Correct",
                      details |-> <<"found", loc,
                                    actual_checked_range(expanded_location_keys)>>]
        ELSE IF Strip(full_doc_text) = <<>>
        THEN base @@ [status |-> "Incorrect",
                      details |-> <<"not found, location empty", loc,
                                    actual_checked_range(expanded_location_keys)>>]
        ELSE base @@ [status |-> "Incorrect",
                      details |-> <<"not found, differences highlighted", loc,
                                    actual_checked_range(expanded_location_keys)>>,
                      highlighted |-> get_highlighted_diff(sentence_to_check, full_doc_text),
                      doc_text |-> full_doc_text]

(***************************************************************************)
(* Inputs                                                                  *)
(***************************************************************************)
Row(s, l) == [sentence |-> s, location |-> l]

SeqsUpTo(S, n) == UNION {[1..k -> S] : k \in 0..n}

\* documents of the batch specification: an empty paragraph, a plain one and
\* an indented one with trailing whitespace
ParaTexts == {<<>>, <<"a">>, <<TAB, "b", " ">>}
Docs == SeqsUpTo(ParaTexts, MaxParas)

L1T0 == <<"L", "1", ":", "T", "0">>
L2C == <<"L", "2", ":", "C">>
L1T0toL2T0 == L1T0 \o <<" ", "-", " ">> \o <<"L", "2", ":", "T", "0">>

Locations ==
    { L1T0, L2C, L1T0toL2T0,
      <<"L", "1", ":", "T">>,                       \* no tab digits
      <<"L", "2", ":", "C", "x">>,                  \* trailing text
      <<"L", "1">>,                                 \* no qualifier
      <<" ", "L", "3", ":", "C">> }

SkippedRows ==
    { Row(NaN, L1T0), Row(<<"a">>, NaN), Row(<<"N", "a", "N", " ">>, L2C) }

Rows ==
    SkippedRows
    \cup {Row(<<"a">>, l) : l \in Locations}
    \cup {Row(<<"a", " ", "b">>, l) : l \in {L1T0toL2T0, L2C}}
Dfs == SeqsUpTo(Rows, MaxRows)

\* documents and rows of the wide specification: documents long enough for
\* a line to lie more than ExpandLines away from another
WideTexts == {<<"a">>, <<TAB, "b">>}
WideDocs == SeqsUpTo(WideTexts, MaxWideParas)

PointRef(n, q) == <<"L">> \o IntToStr(n) \o <<":">> \o q
RangeRef(s, qs, e, qe) == PointRef(s, qs) \o <<" ", "-", " ">> \o PointRef(e, qe)

WideLocations ==
    {PointRef(n, <<"C">>) : n \in 1..(MaxWideParas + 1)}
    \cup UNION {{RangeRef(s, <<"T", "0">>, e, <<"C">>) : e \in {s, s + 1, s + 2}} :
                    s \in 1..(MaxWideParas + 1)}

WideSentences == {<<"a">>, <<"b">>, <<"b", " ", "a">>}
WideRows == {Row(NaN, L1T0)} \cup {Row(s, l) : s \in WideSentences, l \in WideLocations}
WideDfs == {<<r>> : r \in WideRows}

(***************************************************************************)
(* The script: parse_docx, then run_checker row by row                     *)
(***************************************************************************)
Idle == <<>>

InitWith(docs, dfs) ==
    /\ pc = "parse_docx"
    /\ paragraphs \in docs
    /\ df \in dfs
    /\ doc_data = EmptyDict
    /\ line_to_key_map = EmptyDict
    /\ index = 0
    /\ results = <<>>
    /\ location_str = Idle /\ keys = Idle
    /\ text1 = Idle /\ text2 = Idle /\ highlighted = Idle

Init == InitWith(Docs, Dfs)
InitWide == InitWith(WideDocs, WideDfs)

\* doc_data, line_to_key_map = parse_docx(docx_content)
ParseDocx ==
    /\ pc = "parse_docx"
    /\ doc_data' = parse_docx(paragraphs)[1]
    /\ line_to_key_map' = parse_docx(paragraphs)[2]
    /\ pc' = "run_checker"
    /\ UNCHANGED <<paragraphs, df, index, results, location_str, keys,
                   text1, text2, highlighted>>

\* an iteration that ends in `continue`
RowSkipped ==
    /\ pc = "run_checker"
    /\ index < Len(df)
    /\ is_skipped(df[index + 1])
    /\ index' = index + 1
    /\ UNCHANGED <<pc, paragraphs, doc_data, line_to_key_map, df, results,
                   location_str, keys, text1, text2, highlighted>>

\* an iteration that ends in results.append(result_item)
RowChecked ==
    /\ pc = "run_checker"
    /\ index < Len(df)
    /\ ~is_skipped(df[index + 1])
    /\ results' = Append(results, check_row(df[index + 1], index, doc_data, line_to_key_map))
    /\ index' = index + 1
    /\ UNCHANGED <<pc, paragraphs, doc_data, line_to_key_map, df,
                   location_str, keys, text1, text2, highlighted>>

\* return results
RunCheckerReturn ==
    /\ pc = "run_checker"
    /\ index = Len(df)
    /\ pc' = "done"
    /\ UNCHANGED <<paragraphs, doc_data, line_to_key_map, df, index, results,
                   location_str, keys, text1, text2, highlighted>>

Next == ParseDocx \/ RowSkipped \/ RowChecked \/ RunCheckerReturn

Spec == Init /\ [][Next]_vars
SpecWide == InitWide /\ [][Next]_vars

(***************************************************************************)
(* parse_location_string on its own: every reference of LocStrings against *)
(* the line map of every document of LocDocs                               *)
(***************************************************************************)
LocDocs == SeqsUpTo(ParaTexts, MaxLocParas)

Quals == {<<"T", "0">>, <<"T", "1">>, <<"C">>}
LocLines == 0..(MaxLocParas + 1)

LocStrings ==
    {PointRef(n, q) : n \in LocLines, q \in Quals}
    \cup {RangeRef(s, qs, e, qe) : s \in LocLines, e \in LocLines, qs \in Quals, qe \in Quals}
    \cup { <<"L", "0", "2", ":", "C">>,
           <<"L", "1", ":", "T">>,
           <<"L", "1", ":", "C", " ", "-", " ", "L", "2">>,
           L1T0toL2T0 \o <<" ", "-", " ">> \o L2C }

InitLoc ==
    /\ pc = "parse_location_string"
    /\ paragraphs \in LocDocs
    /\ doc_data = parse_docx(paragraphs)[1]
    /\ line_to_key_map = parse_docx(paragraphs)[2]
    /\ location_str \in LocStrings
    /\ keys = Idle
    /\ df = <<>> /\ index = 0 /\ results = <<>>
    /\ text1 = Idle /\ text2 = Idle /\ highlighted = Idle

ParseLocationString ==
    /\ pc = "parse_location_string"
    /\ keys' = parse_location_string(location_str, line_to_key_map)
    /\ pc' = "resolved"
    /\ UNCHANGED <<paragraphs, doc_data, line_to_key_map, df, index, results,
                   location_str, text1, text2, highlighted>>

NextLoc == ParseLocationString

SpecLoc == InitLoc /\ [][NextLoc]_vars

(***************************************************************************)
(* get_highlighted_diff on its own                                         *)
(***************************************************************************)
DiffAlphabet == {"a", "b"}

InitDiff ==
    /\ pc = "get_highlighted_diff"
    /\ text1 \in StringsUpTo(DiffAlphabet, MaxDiffLen)
    /\ text2 \in StringsUpTo(DiffAlphabet, MaxDiffLen + 1)
    /\ highlighted = Idle
    /\ paragraphs = <<>> /\ doc_data = EmptyDict /\ line_to_key_map = EmptyDict
    /\ df = <<>> /\ index = 0 /\ results = <<>>
    /\ location_str = Idle /\ keys = Idle

HighlightDiff ==
    /\ pc = "get_highlighted_diff"
    /\ highlighted' = get_highlighted_diff(text1, text2)
    /\ pc' = "highlighted"
    /\ UNCHANGED <<paragraphs, doc_data, line_to_key_map, df, index, results,
                   location_str, keys, text1, text2>>

NextDiff == HighlightDiff

SpecDiff == InitDiff /\ [][NextDiff]_vars

(***************************************************************************)
(* Properties                                                              *)
(***************************************************************************)
NumLines == Len(paragraphs)

\* the trimmed text and the tab depth of the document's paragraph at line n
ParaText(n) == Strip(paragraphs[n])
TabDepth(n) == Count(paragraphs[n], TAB)

\* the trimmed texts of the lines lo..hi, in order
RECURSIVE TextsOfLines(_, _)
TextsOfLines(lo, hi) ==
    IF lo > hi THEN <<>> ELSE <<ParaText(lo)>> \o TextsOfLines(lo + 1, hi)

Min(x, y) == IF x < y THEN x ELSE y
Max(x, y) == IF x > y THEN x ELSE y

\* the lines a result record reports as checked
CheckedLines(r) ==
    LET c == r.details[3]
    IN  IF c[1] = "Checked range" THEN c[2]..c[3] ELSE {ParseInt(Tail(c[2]))}

\* the 0-based positions, among the first n rows, of the rows whose two
\* fields are both non-blank and not a null marker
BlankOrNull(cell) ==
    \/ cell = NaN
    \/ Strip(cell) = <<>>
    \/ Lower(Strip(cell)) = <<"n", "a", "n">>

Reportable(row) == ~BlankOrNull(row.sentence) /\ ~BlankOrNull(row.location)

RECURSIVE ReportablePositions(_)
ReportablePositions(n) ==
    IF n = 0 THEN <<>>
    ELSE ReportablePositions(n - 1)
         \o (IF Reportable(df[n]) THEN <<n - 1>> ELSE <<>>)

\* the location mini-language: L<digits>:T<digits>, L<digits>:C, or two of
\* these joined by " - "
IsDigits(s) == Len(s) >= 1 /\ \A i \in 1..Len(s) : s[i] \in Digits

IsPointRef(s) ==
    /\ Len(s) >= 4
    /\ s[1] = "L"
    /\ \E c \in 3..(Len(s) - 1) :
          /\ s[c] = ":"
          /\ IsDigits(SubSeq(s, 2, c - 1))
          /\ \/ SubSeq(s, c + 1, Len(s)) = <<"C">>
             \/ s[c + 1] = "T" /\ IsDigits(SubSeq(s, c + 2, Len(s)))

Conforms(s) ==
    \/ IsPointRef(s)
    \/ \E i \in 1..Len(s) :
          /\ IsPointRef(SubSeq(s, 1, i))
          /\ SubSeq(s, i + 1, Min(i + 3, Len(s))) = <<" ", "-", " ">>
          /\ IsPointRef(SubSeq(s, i + 4, Len(s)))

\* C1: a reported row that resolved has status match exactly when its
\* sentence is contained in the text of one single paragraph among the
\* lines checked for it; containment in the space-joined text alone
\* (a sentence spanning a paragraph boundary) gives mismatch.
C1_MatchIffInOneParagraph ==
    \A k \in 1..Len(results) :
        LET r == results[k]
        IN  r.status # "Error" =>
                (r.status = "Correct" <=>
                     \E n \in CheckedLines(r) : Contains(ParaText(n), r.sentence))

\* a mismatch whose sentence occurs in the joined located text
C1_Witness ==
    \E k \in 1..Len(results) :
        /\ results[k].status = "Incorrect"
        /\ "doc_text" \in DOMAIN results[k]
        /\ Contains(results[k].doc_text, results[k].sentence)
        /\ Cardinality(CheckedLines(results[k])) >= 2

\* C2: an exact-tab reference L<n>:T<t> resolves to the one key (n, t) when
\* line n has tab depth t, and to the empty list otherwise.
C2_ExactTabOnly ==
    pc = "resolved" =>
        \A n \in LocLines : \A t \in {0, 1} :
            location_str = PointRef(n, <<"T">> \o IntToStr(t)) =>
                keys = IF n \in 1..NumLines /\ TabDepth(n) = t
                       THEN <<PointRef(n, <<"T">> \o IntToStr(t))>>
                       ELSE <<>>

\* the keys the line map holds for the lines s..e, in ascending line order
RangeLines(s, e) == {n \in s..e : n \in DOMAIN line_to_key_map}

IsKeysOfLines(ks, lines) ==
    /\ Len(ks) = Cardinality(lines)
    /\ \A i \in 1..Len(ks) :
          \E n \in lines :
              /\ Cardinality({m \in lines : m < n}) = i - 1
              /\ ks[i] = line_to_key_map[n]

\* C3: a range reference from line s to line e resolves to exactly the keys
\* of the lines s..e that have one, in ascending line order, whatever the
\* tab qualifiers of the two bounds; to the empty list when s > e.
C3_RangeKeys ==
    pc = "resolved" =>
        \A s \in LocLines : \A e \in LocLines : \A qs \in Quals : \A qe \in Quals :
            location_str = RangeRef(s, qs, e, qe) =>
                /\ IsKeysOfLines(keys, RangeLines(s, e))
                /\ (s > e => keys = <<>>)

\* a range with a bound outside the document, whose qualifiers do not match
\* the document's tab depths, resolved to two or more keys
C3_Witness ==
    /\ pc = "resolved"
    /\ \E s \in LocLines : \E e \in LocLines :
          /\ location_str = RangeRef(s, <<"T", "1">>, e, <<"C">>)
          /\ Len(keys) >= 2
          /\ Len(keys) < e - s + 1
          /\ \E n \in RangeLines(s, e) : TabDepth(n) # 1

\* C4 as stated: a row whose reference is the single point L<n> is matched
\* against the paragraph at line n alone, and the located text attached to
\* it is that paragraph's text.
C4_SinglePointExact ==
    \A k \in 1..Len(results) : \A n \in 1..NumLines :
        LET r == results[k]
        IN  r.location = PointRef(n, <<"C">>) =>
                /\ (r.status = "Correct" => Contains(ParaText(n), r.sentence))
                /\ ("doc_text" \in DOMAIN r => r.doc_text = ParaText(n))

\* C4 as amended: a row whose reference is the single point L<n>, n a line
\* of the document, is matched against each paragraph of the lines
\* max(1, n-5) .. n+5 that exist: the status is match exactly when one of
\* those paragraphs contains the sentence, and a located text attached on
\* mismatch is the texts of those lines joined by single spaces.
C4_SinglePointNeighbourhood ==
    \A k \in 1..Len(results) : \A n \in 1..NumLines :
        LET r == results[k]
            lo == Max(1, n - 5)
            hi == Min(NumLines, n + 5)
        IN  r.location = PointRef(n, <<"C">>) =>
                /\ r.status \in {"Correct", "Incorrect"}
                /\ (r.status = "Correct" <=>
                        \E m \in lo..hi : Contains(ParaText(m), r.sentence))
                /\ ("doc_text" \in DOMAIN r => r.doc_text = Join(TextsOfLines(lo, hi)))

\* a single-point row reported mismatch although a paragraph more than five
\* lines away contains the sentence, and another reported match through a
\* neighbouring line only
C4_Witness ==
    /\ \E k \in 1..Len(results) : \E n \in 1..NumLines :
          /\ results[k].location = PointRef(n, <<"C">>)
          /\ results[k].status = "Incorrect"
          /\ "doc_text" \in DOMAIN results[k]
          /\ \E m \in 1..NumLines : m > n + 5 /\ Contains(ParaText(m), results[k].sentence)

\* C5: a row whose location does not conform to the mini-language gets the
\* unresolved-location status, and the batch still reports every later row.
C5_NonConformingUnresolved ==
    /\ \A k \in 1..Len(results) :
          ~Conforms(results[k].location) => results[k].status = "Error"
    /\ pc = "done" => Len(results) = Len(ReportablePositions(Len(df)))

\* C6: the highlighted fragment and the located text are both attached to
\* every mismatch record and to no other record.
C6_DiffAttachedIffMismatch ==
    \A k \in 1..Len(results) :
        LET r == results[k]
        IN  /\ r.status = "Incorrect" => {"highlighted", "doc_text"} \subseteq DOMAIN r
            /\ r.status \in {"Correct", "Error"} =>
                   {"highlighted", "doc_text"} \cap DOMAIN r = {}

\* C7: after any number of iterations the records are exactly those of the
\* rows read so far whose two fields are both non-blank and not a null
\* marker, in input order, each numbered with its own 0-based position
\* plus 2.
C7_OneRecordPerReportableRow ==
    pc \in {"run_checker", "done"} =>
        LET pos == ReportablePositions(index)
        IN  /\ pc = "done" => index = Len(df)
            /\ Len(results) = Len(pos)
            /\ \A k \in 1..Len(pos) :
                  /\ results[k].excel_row = pos[k] + 2
                  /\ results[k].sentence = Strip(df[pos[k] + 1].sentence)
                  /\ results[k].location = Strip(df[pos[k] + 1].location)

\* a finished batch whose first row was skipped and whose second row is
\* reported as row 3
C7_Witness ==
    /\ pc = "done"
    /\ Len(df) = 2
    /\ ~Reportable(df[1])
    /\ Len(results) = 1
    /\ results[1].excel_row = 3

\* C8: the diff of a non-empty sentence against a text that contains it is
\* the sentence itself, without any highlight marker.
C8_SubstringUnmarked ==
    (pc = "highlighted" /\ text1 # <<>> /\ Contains(text2, text1)) =>
        highlighted = text1

\* a sentence of two characters or more found inside a longer text that
\* starts with a shorter, partial match of it
C8_Witness ==
    /\ pc = "highlighted"
    /\ Len(text1) >= 2
    /\ Len(text2) > Len(text1)
    /\ Contains(text2, text1)
    /\ ~OccursAt(text1, text2, 0)
    /\ text2[1] = text1[1]
    /\ highlighted = text1

\* C9 as stated: the key -> text index has an entry only for the paragraphs
\* whose trimmed text is non-empty, the line -> key map one for every
\* paragraph, numbered 1..N; an empty document gives two empty maps.
C9_IndexOnlyNonEmpty ==
    pc # "parse_docx" =>
        /\ DOMAIN line_to_key_map = 1..NumLines
        /\ \A n \in 1..NumLines :
              line_to_key_map[n] \in DOMAIN doc_data <=> ParaText(n) # <<>>
        /\ NumLines = 0 => (DOMAIN doc_data = {} /\ DOMAIN line_to_key_map = {})

\* C9 as amended: the key -> text index and the line -> key map both have
\* an entry for every paragraph, empty ones included (stored with the empty
\* text), the lines numbered 1..N; an empty document gives two empty maps.
C9_IndexEveryParagraph ==
    pc # "parse_docx" =>
        /\ DOMAIN line_to_key_map = 1..NumLines
        /\ DOMAIN doc_data = {line_to_key_map[n] : n \in 1..NumLines}
        /\ Cardinality(DOMAIN doc_data) = NumLines
        /\ \A n \in 1..NumLines :
              /\ line_to_key_map[n] = PointRef(n, <<"T">> \o IntToStr(TabDepth(n)))
              /\ doc_data[line_to_key_map[n]] = ParaText(n)
        /\ NumLines = 0 => (DOMAIN doc_data = {} /\ DOMAIN line_to_key_map = {})

\* an indexed document with an empty paragraph between or beside others
C9_Witness ==
    /\ pc # "parse_docx"
    /\ NumLines >= 2
    /\ \E n \in 1..NumLines :
          /\ ParaText(n) = <<>>
          /\ line_to_key_map[n] \in DOMAIN doc_data
    /\ \E n \in 1..NumLines : ParaText(n) # <<>>

\* C10: a row whose reference is the range L<s> - L<e> is matched against
\* the paragraphs of the lines s..e only, and the located text attached to
\* it is the text of those lines.
C10_RangeNotExpanded ==
    \A k \in 1..Len(results) :
      \A s \in 1..(MaxWideParas + 1) : \A e \in {s, s + 1, s + 2} :
        LET r == results[k]
            hi == Min(NumLines, e)
        IN  r.location = RangeRef(s, <<"T", "0">>, e, <<"C">>) =>
                /\ (r.status = "Correct" =>
                        \E m \in s..hi : Contains(ParaText(m), r.sentence))
                /\ ("doc_text" \in DOMAIN r => r.doc_text = Join(TextsOfLines(s, hi)))

====
